---- MODULE Spec2Model ----
(***************************************************************************)
(* Teabag, the AppImage installer wizard (the fuzzy-search variant of the  *)
(* program): the Bubble Tea model, its Update handlers, the embedded file  *)
(* browser and the install pipeline with its privilege-escalation chain.   *)
(*                                                                         *)
(* Text (m.input, names, queries) is a sequence of one-character strings;  *)
(* a path is a sequence of entry names, the root "/" being the empty path. *)
(* error and message texts are kept as whole strings.                      *)
(***************************************************************************)
EXTENDS Integers, Sequences, FiniteSets, TLC

\* ------------------------------------------------------------------ bounds
\* Printable/other keys accepted into m.input during one session.
MaxTyped == 2
\* Characters accepted into m.searchQuery.
MaxQuery == 1

\* ------------------------------------------------------------------- steps
stepFileBrowser == "stepFileBrowser"
stepAppImageDir == "stepAppImageDir"
stepAppName     == "stepAppName"
stepDescription == "stepDescription"
stepIcon        == "stepIcon"
stepIconBrowser == "stepIconBrowser"
stepCategories  == "stepCategories"
stepProcessing  == "stepProcessing"
stepComplete    == "stepComplete"
stepError       == "stepError"

\* ------------------------------------------------------------------- text
Empty == <<>>

Lower(c) ==
  CASE c = "A" -> "a" [] c = "I" -> "i" [] c = "P" -> "p" [] c = "N" -> "n"
    [] c = "G" -> "g" [] c = "U" -> "u" [] OTHER -> c

ToLower(s) == [i \in 1..Len(s) |-> Lower(s[i])]

HasSuffix(s, suf) ==
  /\ Len(s) >= Len(suf)
  /\ SubSeq(s, Len(s) - Len(suf) + 1, Len(s)) = suf

AppImageExt == <<".", "a", "p", "p", "i", "m", "a", "g", "e">>

ImageExts ==
  { <<".", "p", "n", "g">>, <<".", "j", "p", "g">>, <<".", "j", "p", "e", "g">>,
    <<".", "s", "v", "g">>, <<".", "i", "c", "o">>, <<".", "x", "p", "m">>,
    <<".", "b", "m", "p">>, <<".", "g", "i", "f">>, <<".", "w", "e", "b", "p">> }

isImageFile(name) == \E ext \in ImageExts : HasSuffix(ToLower(name), ext)

isAppImageFile(name) == HasSuffix(ToLower(name), AppImageExt)

\* "Utility;", the word abbreviated to its first letter.
Utility == <<"U", ";">>

\* ------------------------------------------------------------------- keys
\* msg.String() of a key message: the named keys and the single characters.
NamedKeys == {"enter", "backspace", "ctrl+c", "esc", "up", "down"}
CharKeys  == {"/", "j", "k", "b", "p", ";"}
Keys      == NamedKeys \cup CharKeys

\* The text of msg.String(), as appended by m.input += msg.String().
KeyText(key) ==
  CASE key = "up"        -> <<"u", "p">>
    [] key = "down"      -> <<"d", "o", "w", "n">>
    [] key = "enter"     -> <<"e", "n", "t", "e", "r">>
    [] key = "backspace" -> <<"b", "a", "c", "k", "s", "p", "a", "c", "e">>
    [] key = "ctrl+c"    -> <<"c", "t", "r", "l", "+", "c">>
    [] key = "esc"       -> <<"e", "s", "c">>
    [] OTHER             -> <<key>>

\* ------------------------------------------------------------- file system
Root == <<>>
DotDot == <<".", ".">>

nA == <<"a", ".", "A", "p", "p", "I", "m", "a", "g", "e">>
nB == <<"b", ".", "P", "N", "G">>
nC == <<"c", ".", "t", "x", "t">>
nH == <<"h">>
nP == <<"p">>
nU == <<"u">>

HomeDir == <<nH>>

\* filepath.Dir on a path; the root is its own parent.
Dir(p) == IF p = Root THEN Root ELSE SubSeq(p, 1, Len(p) - 1)

\* filepath.Join(dir, name).
Join(p, name) == Append(p, name)

DE(name, isDir) == [name |-> name, isDir |-> isDir]

\* os.ReadDir: the directory's entries sorted by filename, or an error.
\* /        : h/
\* /h       : a.AppImage  b.PNG  c.txt  p/  u/
\* /h/p     : c.txt
\* /h/u     : unreadable
ReadDir(p) ==
  CASE p = Root -> [ok |-> TRUE, entries |-> <<DE(nH, TRUE)>>]
    [] p = <<nH>> -> [ok |-> TRUE,
                      entries |-> <<DE(nA, FALSE), DE(nB, FALSE), DE(nC, FALSE),
                                    DE(nP, TRUE), DE(nU, TRUE)>>]
    [] p = <<nH, nP>> -> [ok |-> TRUE,
                          entries |-> <<DE(nC, FALSE)>>]
    [] OTHER -> [ok |-> FALSE, entries |-> <<>>]

\* Working directories the program may be started in (os.Getwd).
StartDirs == {<<nH>>}

\* The bundle named on the command line (os.Args[1]).
ArgPath == <<nH, nA>>

\* filepath.Join(homeDir, "Applications"), as text: the directory's path is
\* abbreviated to one letter.
DefaultDir == <<"A">>

ErrReadDir   == "Failed to read directory"
ErrLoadCfg   == "Failed to load config"
ErrMkdir     == "Failed to create directory"
ErrSaveCfg   == "Failed to save config"
ErrNameReq   == "Application name is required"
ErrIcon      == "Warning: Icon file not found"
ErrAbs       == "failed to get absolute path"
ErrMove      == "failed to move file"
ErrChmod     == "failed to make executable"
ErrTmp       == "failed to create temp desktop entry"
ErrCopy      == "failed to copy desktop file"
ErrPrivilege == "Installation requires administrator privileges. Rerun with sudo or pkexec."
NoError      == ""

\* m.message: unset, or the completion text, which names the application.
NoMessage == <<>>
CompleteMessage(appName) == <<"Installation complete!", appName>>

\* ------------------------------------------------------- directory listing
FE(name, path, isDir) == [name |-> name, path |-> path, isDir |-> isDir]

\* Variant: the loop appends every entry, whatever its extension.
ListedEntries_unfiltered(dir, entries, iconMode) ==
  [i \in 1..Len(entries) |->
     FE(entries[i].name, Join(dir, entries[i].name), entries[i].isDir)]

\* The entries of one directory that the loop of loadDirectoryWithFilter
\* appends, in the order os.ReadDir returned them.
ListedEntries(dir, entries, iconMode) ==
  LET keep(e) == \/ e.isDir
                 \/ (iconMode /\ isImageFile(e.name))
                 \/ (~iconMode /\ isAppImageFile(e.name))
      kept == SelectSeq(entries, keep)
  IN [i \in 1..Len(kept) |-> FE(kept[i].name, Join(dir, kept[i].name), kept[i].isDir)]

\* Variant: a listing keeps the search query of the previous one.
loadDirectoryWithFilter_keepsQuery(mm, iconMode) ==
  LET reset == [mm EXCEPT !.allFiles = <<>>, !.files = <<>>, !.cursor = 0,
                          !.searchMode = FALSE]
      rd == ReadDir(mm.currentDir)
      parent == IF mm.currentDir # Root
                THEN <<FE(DotDot, Dir(mm.currentDir), TRUE)>>
                ELSE <<>>
      all == parent \o ListedEntries(mm.currentDir, rd.entries, iconMode)
  IN IF ~rd.ok
     THEN [reset EXCEPT !.error = ErrReadDir]
     ELSE [reset EXCEPT !.allFiles = all, !.files = all]

\* Variant: the parent entry is added at the root too.
loadDirectoryWithFilter_parentAlways(mm, iconMode) ==
  LET reset == [mm EXCEPT !.allFiles = <<>>, !.files = <<>>, !.cursor = 0,
                          !.searchMode = FALSE, !.searchQuery = Empty]
      rd == ReadDir(mm.currentDir)
      parent == <<FE(DotDot, Dir(mm.currentDir), TRUE)>>
      all == parent \o ListedEntries(mm.currentDir, rd.entries, iconMode)
  IN IF ~rd.ok
     THEN [reset EXCEPT !.error = ErrReadDir]
     ELSE [reset EXCEPT !.allFiles = all, !.files = all]

loadDirectoryWithFilter(mm, iconMode) ==
  LET reset == [mm EXCEPT !.allFiles = <<>>, !.files = <<>>, !.cursor = 0,
                          !.searchMode = FALSE, !.searchQuery = Empty]
      rd == ReadDir(mm.currentDir)
      parent == IF mm.currentDir # Root
                THEN <<FE(DotDot, Dir(mm.currentDir), TRUE)>>
                ELSE <<>>
      all == parent \o ListedEntries(mm.currentDir, rd.entries, iconMode)
  IN IF ~rd.ok
     THEN [reset EXCEPT !.error = ErrReadDir]
     ELSE [reset EXCEPT !.allFiles = all, !.files = all]

loadDirectory(mm) == loadDirectoryWithFilter(mm, FALSE)

loadIconDirectory(mm) == loadDirectoryWithFilter(mm, TRUE)

\* ------------------------------------------------------------ fuzzy search
\* fuzzy.FindFrom: the candidates that contain the pattern as a
\* case-insensitive subsequence, best score first, equal scores in the
\* order of the candidates.  The score keeps the library's first-character
\* bonus, its capped penalty for unmatched leading characters and its
\* penalty of one per unmatched character.
RECURSIVE IsSubsequence(_, _)
IsSubsequence(q, s) ==
  IF q = <<>> THEN TRUE
  ELSE IF s = <<>> THEN FALSE
  ELSE IF Lower(Head(q)) = Lower(Head(s))
       THEN IsSubsequence(Tail(q), Tail(s))
       ELSE IsSubsequence(q, Tail(s))

FirstMatchAt(q, s) ==
  CHOOSE i \in 1..Len(s) :
    /\ Lower(s[i]) = Lower(q[1])
    /\ \A j \in 1..(i - 1) : Lower(s[j]) # Lower(q[1])

Min(a, b) == IF a < b THEN a ELSE b
Max(a, b) == IF a > b THEN a ELSE b

FuzzyScore(q, s) ==
  LET lead == FirstMatchAt(q, s) - 1
  IN (IF lead = 0 THEN 10 ELSE 0) - Min(lead * 5, 15) - (Len(s) - Len(q))

RECURSIVE RankMatches(_, _, _)
RankMatches(S, q, all) ==
  IF S = {} THEN <<>>
  ELSE LET best == CHOOSE i \in S : \A j \in S :
                     \/ FuzzyScore(q, all[i].name) > FuzzyScore(q, all[j].name)
                     \/ /\ FuzzyScore(q, all[i].name) = FuzzyScore(q, all[j].name)
                        /\ i <= j
       IN <<best>> \o RankMatches(S \ {best}, q, all)

\* The Index fields of the matches, in ranked order (1-based).
FuzzyFind(q, all) ==
  RankMatches({i \in 1..Len(all) : IsSubsequence(q, all[i].name)}, q, all)

\* Variant: the cursor is not clamped to the filtered list.
applyFuzzySearch_noClamp(mm) ==
  IF mm.searchQuery = Empty
  THEN [mm EXCEPT !.files = mm.allFiles, !.cursor = 0]
  ELSE LET matches == FuzzyFind(mm.searchQuery, mm.allFiles)
       IN [mm EXCEPT !.files = [i \in 1..Len(matches) |-> mm.allFiles[matches[i]]]]

\* Variant: every search edit puts the cursor back to 0.
applyFuzzySearch_resetsCursor(mm) ==
  IF mm.searchQuery = Empty
  THEN [mm EXCEPT !.files = mm.allFiles, !.cursor = 0]
  ELSE LET matches == FuzzyFind(mm.searchQuery, mm.allFiles)
       IN [mm EXCEPT !.files = [i \in 1..Len(matches) |-> mm.allFiles[matches[i]]],
                     !.cursor = 0]

applyFuzzySearch(mm) ==
  IF mm.searchQuery = Empty
  THEN [mm EXCEPT !.files = mm.allFiles, !.cursor = 0]
  ELSE LET matches == FuzzyFind(mm.searchQuery, mm.allFiles)
           found == [i \in 1..Len(matches) |-> mm.allFiles[matches[i]]]
       IN [mm EXCEPT !.files = found,
                     !.cursor = IF mm.cursor >= Len(found)
                                THEN Max(0, Len(found) - 1)
                                ELSE mm.cursor]

isFileBrowserStep(mm) ==
  mm.currentStep = stepFileBrowser \/ mm.currentStep = stepIconBrowser

\* ------------------------------------------------------------- environment
\* What the operating system answers to the calls of one handler run.
\* same: the bundle already lies at the destination (absPath == destFile).
DefaultEnv ==
  [configExists |-> TRUE, loadOk |-> TRUE, mkdirOk |-> TRUE, saveOk |-> TRUE,
   iconExists |-> TRUE, absOk |-> TRUE, same |-> FALSE, renameOk |-> TRUE,
   chmodOk |-> TRUE, writeOk |-> TRUE, cpOk |-> TRUE, pkexec |-> TRUE]

\* os.Stat(configPath) and loadConfig.
ConfigEnvs ==
  { [DefaultEnv EXCEPT !.configExists = c, !.loadOk = l] :
      <<c, l>> \in {<<FALSE, TRUE>>, <<TRUE, TRUE>>, <<TRUE, FALSE>>} }

\* os.MkdirAll and saveConfig.
DirEnvs ==
  { [DefaultEnv EXCEPT !.mkdirOk = d, !.saveOk = w] :
      <<d, w>> \in {<<FALSE, TRUE>>, <<TRUE, TRUE>>, <<TRUE, FALSE>>} }

\* os.Stat(m.input) at the icon step.
IconEnvs == { [DefaultEnv EXCEPT !.iconExists = x] : x \in BOOLEAN }

\* The calls of install(), each later call only after the earlier succeeded.
InstallEnvs ==
  { [DefaultEnv EXCEPT !.absOk = FALSE] }
  \cup { [DefaultEnv EXCEPT !.renameOk = FALSE] }
  \cup { [DefaultEnv EXCEPT !.same = sm, !.chmodOk = FALSE] : sm \in BOOLEAN }
  \cup { [DefaultEnv EXCEPT !.same = sm, !.writeOk = FALSE] : sm \in BOOLEAN }
  \cup { [DefaultEnv EXCEPT !.same = sm, !.cpOk = c, !.pkexec = pk] :
           sm \in BOOLEAN, c \in BOOLEAN, pk \in BOOLEAN }

\* ----------------------------------------------------------------- install
\* One call made by the pipeline: which, whether it succeeded, and whether
\* the keystroke handler or the background command made it.
Fx(op, ok, by) == [op |-> op, ok |-> ok, by |-> by]

NoCmd == [kind |-> "none", err |-> NoError, appName |-> Empty]

\* func() tea.Msg { return installCompleteMsg{err: ...} }
FailCmd(err) == [kind |-> "fail", err |-> err, appName |-> Empty]

\* The closure that runs pkexec; it captures the handler's copy of the model.
PkexecCmd(mm) == [kind |-> "pkexec", err |-> NoError, appName |-> mm.appName]

QuitCmd == [kind |-> "quit", err |-> NoError, appName |-> Empty]

\* Variant: the last return of install() reports success.
noHelperCmd_reportsSuccess == FailCmd(NoError)

\* Variant: the last return of install() returns no command.
noHelperCmd_returnsNil == NoCmd

\* The return that ends install(): reached when the unprivileged copy
\* succeeded, and when it failed and pkexec was not found.
noHelperCmd == FailCmd(ErrPrivilege)

\* Variant: the error of os.Rename is ignored.
install_ignoresMoveError(mm, env) ==
  LET lAbs   == <<Fx("abs", env.absOk, "handler")>>
      lMove  == lAbs \o (IF env.same THEN <<>>
                         ELSE <<Fx("move", env.renameOk, "handler")>>)
      lChmod == lMove \o <<Fx("chmod", env.chmodOk, "handler")>>
      lWrite == lChmod \o <<Fx("write", env.writeOk, "handler")>>
      lCp    == lWrite \o <<Fx("cp", env.cpOk, "handler")>>
      lLook  == lCp \o <<Fx("lookPkexec", env.pkexec, "handler")>>
  IN IF ~env.absOk
       THEN [cmd |-> FailCmd(ErrAbs), log |-> lAbs]
     ELSE IF ~env.chmodOk
       THEN [cmd |-> FailCmd(ErrChmod), log |-> lChmod]
     ELSE IF ~env.writeOk
       THEN [cmd |-> FailCmd(ErrTmp), log |-> lWrite]
     ELSE IF ~env.cpOk /\ env.pkexec
       THEN [cmd |-> PkexecCmd(mm), log |-> lLook]
     ELSE IF ~env.cpOk
       THEN [cmd |-> noHelperCmd, log |-> lLook]
     ELSE [cmd |-> noHelperCmd, log |-> lCp]

install(mm, env) ==
  LET lAbs   == <<Fx("abs", env.absOk, "handler")>>
      lMove  == lAbs \o (IF env.same THEN <<>>
                         ELSE <<Fx("move", env.renameOk, "handler")>>)
      lChmod == lMove \o <<Fx("chmod", env.chmodOk, "handler")>>
      lWrite == lChmod \o <<Fx("write", env.writeOk, "handler")>>
      lCp    == lWrite \o <<Fx("cp", env.cpOk, "handler")>>
      lLook  == lCp \o <<Fx("lookPkexec", env.pkexec, "handler")>>
  IN IF ~env.absOk
       THEN [cmd |-> FailCmd(ErrAbs), log |-> lAbs]
     ELSE IF ~env.same /\ ~env.renameOk
       THEN [cmd |-> FailCmd(ErrMove), log |-> lMove]
     ELSE IF ~env.chmodOk
       THEN [cmd |-> FailCmd(ErrChmod), log |-> lChmod]
     ELSE IF ~env.writeOk
       THEN [cmd |-> FailCmd(ErrTmp), log |-> lWrite]
     ELSE IF ~env.cpOk /\ env.pkexec
       THEN [cmd |-> PkexecCmd(mm), log |-> lLook]
     ELSE IF ~env.cpOk
       THEN [cmd |-> noHelperCmd, log |-> lLook]
     ELSE [cmd |-> noHelperCmd, log |-> lCp]

\* ------------------------------------------------------------- handleEnter
\* What a handler returns: the new model, the command, and the calls the
\* handler itself made on the way.
Res(mm, cmd, log) == [m |-> mm, cmd |-> cmd, log |-> log]

\* The directory loadConfig reads from the configuration file.
ConfigDir == <<"C">>

\* os.Stat(m.configPath) and loadConfig, after a bundle was chosen.
proceedAfterBundle(mm, env) ==
  IF ~env.configExists
  THEN [mm EXCEPT !.firstTimeSetup = TRUE, !.currentStep = stepAppImageDir,
                  !.input = DefaultDir]
  ELSE IF env.loadOk
  THEN [mm EXCEPT !.appImageDir = ConfigDir, !.currentStep = stepAppName]
  ELSE [mm EXCEPT !.currentStep = stepError, !.error = ErrLoadCfg]

enterFileBrowser(mm, env) ==
  IF Len(mm.files) = 0 THEN Res(mm, NoCmd, <<>>)
  ELSE LET selected == mm.files[mm.cursor + 1]
       IN IF selected.isDir
          THEN Res(loadDirectory([mm EXCEPT !.currentDir = selected.path]),
                   NoCmd, <<>>)
          ELSE Res(proceedAfterBundle([mm EXCEPT !.appImagePath = selected.path],
                                      env),
                   NoCmd, <<>>)

enterAppImageDir(mm, env) ==
  LET m1 == IF mm.input = Empty THEN [mm EXCEPT !.input = DefaultDir] ELSE mm
      m2 == [m1 EXCEPT !.appImageDir = m1.input]
  IN IF ~env.mkdirOk
       THEN Res([m2 EXCEPT !.currentStep = stepError, !.error = ErrMkdir],
                NoCmd, <<>>)
     ELSE IF ~env.saveOk
       THEN Res([m2 EXCEPT !.currentStep = stepError, !.error = ErrSaveCfg],
                NoCmd, <<>>)
     ELSE Res([m2 EXCEPT !.currentStep = stepAppName, !.input = Empty],
              NoCmd, <<>>)

\* Variant: an empty name is accepted.
enterAppName_acceptsEmpty(mm) ==
  Res([mm EXCEPT !.appName = mm.input, !.currentStep = stepDescription,
                 !.input = Empty, !.error = NoError],
      NoCmd, <<>>)

enterAppName(mm) ==
  IF mm.input = Empty
  THEN Res([mm EXCEPT !.error = ErrNameReq], NoCmd, <<>>)
  ELSE Res([mm EXCEPT !.appName = mm.input, !.currentStep = stepDescription,
                      !.input = Empty, !.error = NoError],
           NoCmd, <<>>)

enterDescription(mm) ==
  Res([mm EXCEPT !.description = mm.input, !.currentStep = stepIcon,
                 !.input = Empty],
      NoCmd, <<>>)

\* Variant: the path is accepted without the os.Stat test.
enterIcon_acceptsMissing(mm, env) ==
  IF mm.input = <<"b">> \/ mm.input = <<"B">>
  THEN Res(loadIconDirectory([mm EXCEPT !.currentDir = HomeDir,
                                        !.currentStep = stepIconBrowser,
                                        !.input = Empty]),
           NoCmd, <<>>)
  ELSE Res([mm EXCEPT !.iconPath = mm.input, !.currentStep = stepCategories,
                      !.input = Utility, !.error = NoError],
           NoCmd, <<>>)

enterIcon(mm, env) ==
  IF mm.input = <<"b">> \/ mm.input = <<"B">>
  THEN Res(loadIconDirectory([mm EXCEPT !.currentDir = HomeDir,
                                        !.currentStep = stepIconBrowser,
                                        !.input = Empty]),
           NoCmd, <<>>)
  ELSE IF mm.input # Empty /\ ~env.iconExists
  THEN Res([mm EXCEPT !.error = ErrIcon], NoCmd, <<>>)
  ELSE Res([mm EXCEPT !.iconPath = mm.input, !.currentStep = stepCategories,
                      !.input = Utility, !.error = NoError],
           NoCmd, <<>>)

\* Variant: choosing a file in the icon browser returns to the Icon step
\* with the path as input.
enterIconBrowser_backToIcon(mm) ==
  IF Len(mm.files) = 0 THEN Res(mm, NoCmd, <<>>)
  ELSE LET selected == mm.files[mm.cursor + 1]
       IN IF selected.isDir
          THEN Res(loadIconDirectory([mm EXCEPT !.currentDir = selected.path]),
                   NoCmd, <<>>)
          ELSE Res([mm EXCEPT !.currentStep = stepIcon, !.input = Empty,
                              !.error = NoError],
                   NoCmd, <<>>)

enterIconBrowser(mm) ==
  IF Len(mm.files) = 0 THEN Res(mm, NoCmd, <<>>)
  ELSE LET selected == mm.files[mm.cursor + 1]
       IN IF selected.isDir
          THEN Res(loadIconDirectory([mm EXCEPT !.currentDir = selected.path]),
                   NoCmd, <<>>)
          ELSE Res([mm EXCEPT !.iconPath = selected.path,
                              !.currentStep = stepCategories,
                              !.input = Utility, !.error = NoError],
                   NoCmd, <<>>)

\* Variant: the input is stored as typed, without the separator check.
enterCategories_asTyped(mm, env) ==
  LET m1 == IF mm.input = Empty THEN [mm EXCEPT !.input = Utility] ELSE mm
      m3 == [m1 EXCEPT !.categories = m1.input, !.currentStep = stepProcessing,
                       !.input = Empty]
      run == install(m3, env)
  IN Res(m3, run.cmd, run.log)

enterCategories(mm, env) ==
  LET m1 == IF mm.input = Empty THEN [mm EXCEPT !.input = Utility] ELSE mm
      m2 == IF ~HasSuffix(m1.input, <<";">>)
            THEN [m1 EXCEPT !.input = Append(m1.input, ";")]
            ELSE m1
      m3 == [m2 EXCEPT !.categories = m2.input, !.currentStep = stepProcessing,
                       !.input = Empty]
      run == install(m3, env)
  IN Res(m3, run.cmd, run.log)

\* Variant: Enter while processing runs the Categories case again.
handleEnter_reinstalls(mm, env) ==
  CASE mm.currentStep = stepFileBrowser -> enterFileBrowser(mm, env)
    [] mm.currentStep = stepAppImageDir -> enterAppImageDir(mm, env)
    [] mm.currentStep = stepAppName     -> enterAppName(mm)
    [] mm.currentStep = stepDescription -> enterDescription(mm)
    [] mm.currentStep = stepIcon        -> enterIcon(mm, env)
    [] mm.currentStep = stepIconBrowser -> enterIconBrowser(mm)
    [] mm.currentStep \in {stepCategories, stepProcessing}
                                        -> enterCategories(mm, env)
    [] mm.currentStep \in {stepComplete, stepError} -> Res(mm, QuitCmd, <<>>)
    [] OTHER -> Res(mm, NoCmd, <<>>)

handleEnter(mm, env) ==
  CASE mm.currentStep = stepFileBrowser -> enterFileBrowser(mm, env)
    [] mm.currentStep = stepAppImageDir -> enterAppImageDir(mm, env)
    [] mm.currentStep = stepAppName     -> enterAppName(mm)
    [] mm.currentStep = stepDescription -> enterDescription(mm)
    [] mm.currentStep = stepIcon        -> enterIcon(mm, env)
    [] mm.currentStep = stepIconBrowser -> enterIconBrowser(mm)
    [] mm.currentStep = stepCategories  -> enterCategories(mm, env)
    [] mm.currentStep \in {stepComplete, stepError} -> Res(mm, QuitCmd, <<>>)
    [] OTHER -> Res(mm, NoCmd, <<>>)

\* --------------------------------------------------- handleFileBrowserKeys
cursorUp(mm) == IF mm.cursor > 0 THEN [mm EXCEPT !.cursor = mm.cursor - 1] ELSE mm

cursorDown(mm) ==
  IF mm.cursor < Len(mm.files) - 1 THEN [mm EXCEPT !.cursor = mm.cursor + 1] ELSE mm

\* Variant: leaving search mode keeps the ranked list.
searchEsc_keepsRanked(mm) ==
  [mm EXCEPT !.searchMode = FALSE, !.searchQuery = Empty, !.cursor = 0]

searchEsc(mm) ==
  [mm EXCEPT !.searchMode = FALSE, !.searchQuery = Empty,
             !.files = mm.allFiles, !.cursor = 0]

searchEnter(mm, env) == handleEnter([mm EXCEPT !.searchMode = FALSE], env)

searchBackspace(mm) ==
  IF Len(mm.searchQuery) > 0
  THEN applyFuzzySearch([mm EXCEPT !.searchQuery =
                           SubSeq(mm.searchQuery, 1, Len(mm.searchQuery) - 1)])
  ELSE mm

searchType(mm, key) ==
  IF Len(KeyText(key)) = 1
  THEN applyFuzzySearch([mm EXCEPT !.searchQuery = mm.searchQuery \o KeyText(key)])
  ELSE mm

\* Variant: backspace always lists with the bundle filter.
browserBackspace_bundleFilter(mm) ==
  IF mm.currentDir # Root
  THEN loadDirectory([mm EXCEPT !.currentDir = Dir(mm.currentDir)])
  ELSE mm

browserBackspace(mm) ==
  IF mm.currentDir # Root
  THEN LET up == [mm EXCEPT !.currentDir = Dir(mm.currentDir)]
       IN IF mm.currentStep = stepIconBrowser
          THEN loadIconDirectory(up)
          ELSE loadDirectory(up)
  ELSE mm

handleFileBrowserKeys(mm, key, env) ==
  IF mm.searchMode
  THEN CASE key = "ctrl+c"    -> Res(mm, QuitCmd, <<>>)
         [] key = "esc"       -> Res(searchEsc(mm), NoCmd, <<>>)
         [] key = "enter"     -> searchEnter(mm, env)
         [] key = "backspace" -> Res(searchBackspace(mm), NoCmd, <<>>)
         [] key = "up"        -> Res(cursorUp(mm), NoCmd, <<>>)
         [] key = "down"      -> Res(cursorDown(mm), NoCmd, <<>>)
         [] OTHER             -> Res(searchType(mm, key), NoCmd, <<>>)
  ELSE CASE key \in {"ctrl+c", "esc"} -> Res(mm, QuitCmd, <<>>)
         [] key = "/" -> Res([mm EXCEPT !.searchMode = TRUE,
                                        !.searchQuery = Empty], NoCmd, <<>>)
         [] key = "up"        -> Res(cursorUp(mm), NoCmd, <<>>)
         [] key = "down"      -> Res(cursorDown(mm), NoCmd, <<>>)
         [] key = "k"         -> Res(cursorUp(mm), NoCmd, <<>>)
         [] key = "j"         -> Res(cursorDown(mm), NoCmd, <<>>)
         [] key = "enter"     -> handleEnter(mm, env)
         [] key = "backspace" -> Res(browserBackspace(mm), NoCmd, <<>>)
         [] OTHER             -> Res(mm, NoCmd, <<>>)

\* ------------------------------------------------------------------ Update
inputBackspace(mm) ==
  IF Len(mm.input) > 0
  THEN [mm EXCEPT !.input = SubSeq(mm.input, 1, Len(mm.input) - 1)]
  ELSE mm

\* Variant: the default case does not test the step.
inputType_anyStep(mm, key) == [mm EXCEPT !.input = mm.input \o KeyText(key)]

\* Variant: the default case discards the key in every step.
inputType_discards(mm, key) == mm

inputType(mm, key) ==
  IF /\ mm.currentStep # stepProcessing
     /\ mm.currentStep # stepComplete
     /\ mm.currentStep # stepError
  THEN [mm EXCEPT !.input = mm.input \o KeyText(key)]
  ELSE mm

\* Variant: only ctrl+c is a quit key outside the browser.
UpdateKey_ctrlcOnly(mm, key, env) ==
  IF isFileBrowserStep(mm) THEN handleFileBrowserKeys(mm, key, env)
  ELSE CASE key = "ctrl+c"    -> Res(mm, QuitCmd, <<>>)
         [] key = "enter"     -> handleEnter(mm, env)
         [] key = "backspace" -> Res(inputBackspace(mm), NoCmd, <<>>)
         [] OTHER             -> Res(inputType(mm, key), NoCmd, <<>>)

\* Update on a tea.KeyMsg.
UpdateKey(mm, key, env) ==
  IF isFileBrowserStep(mm) THEN handleFileBrowserKeys(mm, key, env)
  ELSE CASE key \in {"ctrl+c", "esc"} -> Res(mm, QuitCmd, <<>>)
         [] key = "enter"     -> handleEnter(mm, env)
         [] key = "backspace" -> Res(inputBackspace(mm), NoCmd, <<>>)
         [] OTHER             -> Res(inputType(mm, key), NoCmd, <<>>)

\* Update on the installCompleteMsg.
UpdateInstallComplete(mm, msg) ==
  IF msg.err # NoError
  THEN [mm EXCEPT !.currentStep = stepError, !.error = msg.err]
  ELSE [mm EXCEPT !.currentStep = stepComplete]

\* ------------------------------------------------------------ initialModel
\* The zero value of m.currentDir (""), which names no directory.
NoDir == << <<>> >>

zeroModel ==
  [currentStep |-> stepFileBrowser, appImagePath |-> Empty, appImageDir |-> Empty,
   appName |-> Empty, description |-> Empty, iconPath |-> Empty,
   categories |-> Empty, input |-> Empty, error |-> NoError,
   message |-> NoMessage, firstTimeSetup |-> FALSE, currentDir |-> NoDir,
   files |-> <<>>, allFiles |-> <<>>, cursor |-> 0, searchMode |-> FALSE,
   searchQuery |-> Empty]

initialModel(appImagePath, cwd, env) ==
  LET m0 == [zeroModel EXCEPT !.appImagePath = appImagePath,
                              !.categories = Utility]
  IN IF appImagePath = Empty
       THEN loadDirectory([m0 EXCEPT !.currentStep = stepFileBrowser,
                                     !.currentDir = cwd])
     ELSE IF ~env.configExists
       THEN [m0 EXCEPT !.firstTimeSetup = TRUE, !.currentStep = stepAppImageDir,
                       !.input = DefaultDir]
     ELSE IF env.loadOk
       THEN [m0 EXCEPT !.appImageDir = ConfigDir, !.currentStep = stepAppName]
     ELSE [m0 EXCEPT !.currentStep = stepError, !.error = ErrLoadCfg]

\* ------------------------------------------------------------------- state
VARIABLES
  m,             \* the model held by the Bubble Tea event loop
  cmds,          \* commands returned by Update and not yet run
  msgs,          \* installCompleteMsg values produced and not yet handled
  quitted,       \* tea.Quit was returned: the program has ended
  pipeLog,       \* the calls the install pipeline has made, in order
  disk,          \* what the pipeline has done to the file system
  taskMessage,   \* m.message of the model copy the pkexec closure captured
  typed,         \* keys accepted into m.input so far
  installStarts, \* calls of install()
  delivered      \* installCompleteMsg values handled by Update

vars == <<m, cmds, msgs, quitted, pipeLog, disk, taskMessage, typed,
          installStarts, delivered>>

\* installCompleteMsg{err: err}
installCompleteMsg(err) == [err |-> err]

\* The effect of the pipeline's calls on the file system.
RECURSIVE ApplyLog(_, _)
ApplyLog(d, log) ==
  IF log = <<>> THEN d
  ELSE LET fx == Head(log)
           d1 == CASE fx.op = "move" /\ fx.ok  -> [d EXCEPT !.bundleAtDest = TRUE]
                   [] fx.op = "chmod" /\ fx.ok -> [d EXCEPT !.executable = TRUE]
                   [] fx.op = "write" /\ fx.ok -> [d EXCEPT !.tmpFile = TRUE]
                   [] fx.op \in {"cp", "pkexecCp"} /\ fx.ok
                                               -> [d EXCEPT !.desktopFile = TRUE]
                   [] OTHER -> d
       IN ApplyLog(d1, Tail(log))

\* The environment answers that the handler of this key can ask for.
EnvsFor(mm, key) ==
  IF key # "enter" THEN {DefaultEnv}
  ELSE CASE mm.currentStep = stepFileBrowser -> ConfigEnvs
         [] mm.currentStep = stepAppImageDir -> DirEnvs
         [] mm.currentStep = stepIcon        -> IconEnvs
         [] mm.currentStep = stepCategories  -> InstallEnvs
         [] OTHER -> {DefaultEnv}

\* The keys offered to the text-entry steps: the browse token of the icon
\* step and the separator of the categories step.
TextKeys == {"b", ";"}

\* The key reaches m.input += msg.String().
TypesIntoInput(mm, key) ==
  /\ ~isFileBrowserStep(mm)
  /\ key \notin {"ctrl+c", "esc", "enter", "backspace"}
  /\ mm.currentStep \notin {stepProcessing, stepComplete, stepError}

\* The key reaches m.searchQuery += key.
TypesIntoQuery(mm, key) ==
  /\ isFileBrowserStep(mm)
  /\ mm.searchMode
  /\ key \notin {"ctrl+c", "esc", "enter", "backspace", "up", "down"}
  /\ Len(KeyText(key)) = 1

Init ==
  /\ \E arg \in {Empty, ArgPath}, cwd \in StartDirs, env \in ConfigEnvs :
       m = initialModel(arg, cwd, env)
  /\ cmds = <<>>
  /\ msgs = <<>>
  /\ quitted = FALSE
  /\ pipeLog = <<>>
  /\ disk = [bundleAtDest |-> FALSE, executable |-> FALSE, tmpFile |-> FALSE,
             desktopFile |-> FALSE]
  /\ taskMessage = NoMessage
  /\ typed = 0
  /\ installStarts = 0
  /\ delivered = 0

\* The event loop hands one key message to Update.
KeyMsg(key) ==
  /\ ~quitted
  /\ TypesIntoInput(m, key) => key \in TextKeys /\ typed < MaxTyped
  /\ TypesIntoQuery(m, key) => Len(m.searchQuery) < MaxQuery
  /\ \E env \in EnvsFor(m, key) :
       LET r == UpdateKey(m, key, env)
           started == r.log # <<>>
       IN /\ m' = r.m
          /\ quitted' = (r.cmd = QuitCmd)
          /\ cmds' = IF r.cmd.kind \in {"fail", "pkexec"}
                      THEN Append(cmds, r.cmd)
                      ELSE cmds
          /\ installStarts' = IF started THEN installStarts + 1 ELSE installStarts
          /\ pipeLog' = pipeLog \o r.log
          /\ disk' = ApplyLog(IF started /\ env.same
                              THEN [disk EXCEPT !.bundleAtDest = TRUE]
                              ELSE disk, r.log)
  /\ typed' = IF TypesIntoInput(m, key) THEN typed + 1 ELSE typed
  /\ UNCHANGED <<msgs, taskMessage, delivered>>

\* The runtime runs a command that only returns its installCompleteMsg.
RunFailCmd ==
  /\ ~quitted
  /\ cmds # <<>>
  /\ Head(cmds).kind = "fail"
  /\ cmds' = Tail(cmds)
  /\ msgs' = Append(msgs, installCompleteMsg(Head(cmds).err))
  /\ UNCHANGED <<m, quitted, pipeLog, disk, taskMessage, typed, installStarts,
                 delivered>>

\* Variant: a failed cache refresh is reported as a failed copy.
pkexecTask_refreshFatal(c, cpOk, dbFound, dbOk) ==
  IF ~cpOk \/ (dbFound /\ ~dbOk)
  THEN [log |-> <<Fx("pkexecCp", cpOk, "task")>>, message |-> NoMessage,
        err |-> ErrCopy]
  ELSE [log |-> <<Fx("pkexecCp", TRUE, "task"), Fx("lookUpdateDb", dbFound, "task")>>
                \o (IF dbFound THEN <<Fx("updateDb", dbOk, "task")>> ELSE <<>>),
        message |-> CompleteMessage(c.appName),
        err |-> NoError]

\* The closure run by pkexecTask: the copy, the cache refresh, the message.
pkexecTask(c, cpOk, dbFound, dbOk) ==
  IF ~cpOk
  THEN [log |-> <<Fx("pkexecCp", FALSE, "task")>>, message |-> NoMessage,
        err |-> ErrCopy]
  ELSE [log |-> <<Fx("pkexecCp", TRUE, "task"), Fx("lookUpdateDb", dbFound, "task")>>
                \o (IF dbFound THEN <<Fx("updateDb", dbOk, "task")>> ELSE <<>>),
        message |-> CompleteMessage(c.appName),
        err |-> NoError]

\* The runtime runs the pkexec command in the background.
RunPkexecCmd ==
  /\ ~quitted
  /\ cmds # <<>>
  /\ Head(cmds).kind = "pkexec"
  /\ \E out \in {<<FALSE, FALSE, FALSE>>, <<TRUE, FALSE, FALSE>>,
                 <<TRUE, TRUE, FALSE>>, <<TRUE, TRUE, TRUE>>} :
       LET r == pkexecTask(Head(cmds), out[1], out[2], out[3])
       IN /\ pipeLog' = pipeLog \o r.log
          /\ disk' = ApplyLog(disk, r.log)
          /\ taskMessage' = IF r.err = NoError THEN r.message ELSE taskMessage
          /\ msgs' = Append(msgs, installCompleteMsg(r.err))
  /\ cmds' = Tail(cmds)
  /\ UNCHANGED <<m, quitted, typed, installStarts, delivered>>

\* The event loop hands the installCompleteMsg to Update.
DeliverInstallComplete ==
  /\ ~quitted
  /\ msgs # <<>>
  /\ m' = UpdateInstallComplete(m, Head(msgs))
  /\ msgs' = Tail(msgs)
  /\ delivered' = delivered + 1
  /\ UNCHANGED <<cmds, quitted, pipeLog, disk, taskMessage, typed, installStarts>>

Next ==
  \/ \E key \in Keys : KeyMsg(key)
  \/ RunFailCmd
  \/ RunPkexecCmd
  \/ DeliverInstallComplete

Spec == Init /\ [][Next]_vars

\* The runtime runs every returned command and the event loop handles every
\* message sent to it.
FairSpec ==
  /\ Spec
  /\ WF_vars(RunFailCmd)
  /\ WF_vars(RunPkexecCmd)
  /\ WF_vars(DeliverInstallComplete)

\* ================================================================ claims
Terminal == {stepComplete, stepError}

Logged(op, ok) == \E i \in DOMAIN pipeLog : pipeLog[i].op = op /\ pipeLog[i].ok = ok

\* C1 (as claimed): when the move (or skipped move), chmod and temp-file
\* write succeed and the unprivileged copy succeeds too, the completion
\* event reports success and the wizard goes to Complete, never to Error.
C1_CopySuccessCompletes ==
  Logged("cp", TRUE) =>
    /\ \A i \in DOMAIN msgs : msgs[i].err = NoError
    /\ m.currentStep # stepError
    /\ delivered = 1 => m.currentStep = stepComplete

\* C2: when the unprivileged copy failed and pkexec is not available, the
\* pipeline reports the administrator-privileges failure and the wizard ends
\* in Error, never in Complete, while the bundle stays moved and executable.
C2_NoHelperFailsAfterMove ==
  Logged("lookPkexec", FALSE) =>
    /\ Logged("cp", FALSE)
    /\ disk.bundleAtDest /\ disk.executable
    /\ \A i \in DOMAIN msgs : msgs[i].err = ErrPrivilege
    /\ m.currentStep \in {stepProcessing, stepError}
    /\ delivered = 1 <=> m.currentStep = stepError
    /\ m.currentStep = stepError => m.error = ErrPrivilege

C2_Witness ==
  /\ Logged("lookPkexec", FALSE)
  /\ m.currentStep = stepError
  /\ disk.bundleAtDest /\ disk.executable

C4_ProcessingEnds ==
  (m.currentStep = stepProcessing) ~> (m.currentStep \in Terminal \/ quitted)

C4_Witness == delivered = 1 /\ m.currentStep \in Terminal /\ ~quitted

\* C5: while Processing, Update on any key returns the model unchanged, so
\* every step that is not the delivery of the completion message leaves the
\* model as it is, and that delivery moves the step to Complete or Error.
C5_ProcessingIgnoresKeys ==
  /\ [](m.currentStep = stepProcessing =>
          \A key \in Keys : UpdateKey(m, key, DefaultEnv).m = m)
  /\ [][m.currentStep = stepProcessing =>
          /\ delivered' = delivered => m' = m
          /\ delivered' # delivered => m'.currentStep \in Terminal]_vars

C5_Witness == m.currentStep = stepProcessing /\ quitted

\* C6 (as claimed): in Complete or Error, Update returns tea.Quit for every
\* key.
C6_AnyKeyExits ==
  m.currentStep \in Terminal =>
    \A key \in Keys : UpdateKey(m, key, DefaultEnv).cmd = QuitCmd

C8_EmptyNameRejected ==
  /\ [](m.currentStep = stepAppName /\ m.input = Empty =>
          LET r == UpdateKey(m, "enter", DefaultEnv).m
          IN /\ r.currentStep = stepAppName
             /\ r.appName = Empty
             /\ r.input = Empty
             /\ r.error # NoError)
  /\ [][m.currentStep = stepAppName /\ m.input = Empty /\ m'.input = Empty =>
          /\ m'.currentStep = stepAppName
          /\ m'.appName = Empty
          /\ m' # m => m'.error # NoError]_vars

C8_Witness ==
  m.currentStep = stepAppName /\ m.input = Empty /\ m.error = ErrNameReq

\* C9: in a browser step the cursor is a valid index of the visible list, and
\* 0 when the list is empty.
C9_CursorInRange ==
  isFileBrowserStep(m) =>
    IF Len(m.files) = 0 THEN m.cursor = 0
    ELSE m.cursor \in 0..(Len(m.files) - 1)

C9_Witness ==
  /\ isFileBrowserStep(m)
  /\ m.searchMode /\ m.searchQuery # Empty
  /\ Len(m.files) > 0 /\ Len(m.files) < Len(m.allFiles)
  /\ m.cursor = Len(m.files) - 1

\* C10 (as claimed): in a browser step with search inactive the query is
\* empty and the visible list is the whole listing.
C10_InactiveSearchIsClear ==
  isFileBrowserStep(m) /\ ~m.searchMode =>
    m.searchQuery = Empty /\ m.files = m.allFiles

\* C11: clearing a search restores the original listing.  In a browser step
\* with search active, esc, and a backspace that removes the last character
\* of the query, both leave the query empty and the visible list equal to
\* the unranked listing of the directory, which they do not change.
C11_ClearRestoresListing ==
  /\ [](isFileBrowserStep(m) /\ m.searchMode =>
          LET esc == UpdateKey(m, "esc", DefaultEnv).m
              bs  == UpdateKey(m, "backspace", DefaultEnv).m
          IN /\ esc.searchQuery = Empty
             /\ esc.files = m.allFiles /\ esc.allFiles = m.allFiles
             /\ Len(m.searchQuery) = 1 =>
                  /\ bs.searchQuery = Empty
                  /\ bs.files = m.allFiles /\ bs.allFiles = m.allFiles)
  /\ [][/\ isFileBrowserStep(m) /\ m.searchMode /\ m.searchQuery # Empty
         /\ m'.currentStep = m.currentStep /\ m'.searchQuery = Empty
         => m'.files = m'.allFiles]_vars

\* A ranked list that is shorter than the listing and in another order
\* (p/ before a.AppImage), which esc and backspace both undo.
C11_Witness ==
  /\ isFileBrowserStep(m) /\ m.searchMode /\ Len(m.searchQuery) = 1
  /\ Len(m.files) = 2 /\ m.files[1].name = nP /\ m.files[2].name = nA
  /\ Len(m.allFiles) = 4 /\ m.allFiles[2].name = nA /\ m.allFiles[3].name = nP
  /\ UpdateKey(m, "esc", DefaultEnv).m.files = m.allFiles
  /\ UpdateKey(m, "backspace", DefaultEnv).m.files = m.allFiles

\* The state a directory listing leaves behind.
FreshListing(mm) ==
  /\ ~mm.searchMode /\ mm.searchQuery = Empty /\ mm.cursor = 0
  /\ mm.files = mm.allFiles
  /\ ~ReadDir(mm.currentDir).ok => mm.allFiles = <<>>

\* A step of the wizard that lists a directory: the browser moved to another
\* directory, or the icon browser was entered.
Relisted(mm, nn) ==
  /\ isFileBrowserStep(nn)
  /\ nn.currentDir # mm.currentDir \/ nn.currentStep # mm.currentStep

\* C12: every directory listing in a browser step (the first one, a descent,
\* "..", backspace to the parent, entering the icon browser) leaves search
\* inactive, the query empty, the cursor at 0 and the visible list equal to
\* the listing, also when the directory cannot be read.
C12_ListingResetsSearch ==
  /\ (isFileBrowserStep(m) => FreshListing(m))
  /\ [][Relisted(m, m') => FreshListing(m')]_vars
  /\ [](m.currentStep = stepIcon /\ m.input = <<"b">> =>
          LET r == UpdateKey(m, "enter", DefaultEnv).m
          IN r.currentStep = stepIconBrowser /\ FreshListing(r))

\* The file browser was left with a query typed and a ranked list, and the
\* Enter that opens the icon browser lists the home directory afresh.
C12_Witness ==
  /\ m.currentStep = stepIcon /\ m.input = <<"b">>
  /\ m.searchQuery # Empty /\ m.files # m.allFiles /\ m.cursor > 0
  /\ FreshListing(UpdateKey(m, "enter", DefaultEnv).m)

\* The listing starts with the entry ".." for the parent of the directory.
HasParentEntry(mm) ==
  /\ Len(mm.allFiles) > 0
  /\ mm.allFiles[1] = FE(DotDot, Dir(mm.currentDir), TRUE)

\* C13 (as claimed): in a browser step the listing has ".." at index 0
\* exactly when the directory is not the root, with the parent's path, and
\* at no other index.
C13_ParentEntryIffNotRoot ==
  isFileBrowserStep(m) =>
    /\ m.currentDir # Root <=> HasParentEntry(m)
    /\ \A i \in 2..Len(m.allFiles) : m.allFiles[i].name # DotDot
    /\ m.currentDir = Root =>
         \A i \in 1..Len(m.allFiles) : m.allFiles[i].name # DotDot

\* C13 (amended): the same for every directory that could be read; the
\* listing of a directory that could not be read is empty, without "..".
C13_ParentEntry ==
  isFileBrowserStep(m) =>
    /\ \A i \in 2..Len(m.allFiles) : m.allFiles[i].name # DotDot
    /\ IF ReadDir(m.currentDir).ok
       THEN /\ m.currentDir # Root <=> HasParentEntry(m)
            /\ m.currentDir = Root =>
                 \A i \in 1..Len(m.allFiles) : m.allFiles[i].name # DotDot
       ELSE m.allFiles = <<>>

C13_Witness ==
  /\ m.currentStep = stepIconBrowser
  /\ m.currentDir = <<nH, nP>>
  /\ m.allFiles = <<FE(DotDot, <<nH>>, TRUE)>>

\* C14 (as claimed): in the listing of a browser step, after the optional
\* parent entry, every directory entry precedes every file entry.
C14_DirectoriesBeforeFiles ==
  isFileBrowserStep(m) =>
    \A i, j \in 1..Len(m.allFiles) :
      m.allFiles[i].isDir /\ ~m.allFiles[j].isDir => i < j

\* The entry is a directory or passes the extension test of the step.
PassesFilter(mm, e) ==
  \/ e.isDir
  \/ mm.currentStep = stepFileBrowser /\ isAppImageFile(e.name)
  \/ mm.currentStep = stepIconBrowser /\ isImageFile(e.name)

\* C15: in a browser step every file entry of the listing and of the visible
\* list passes the filter of that step: the bundle extension in the file
\* browser, an image extension in the icon browser, letter case ignored.
C15_EntriesPassFilter ==
  isFileBrowserStep(m) =>
    /\ \A i \in 1..Len(m.allFiles) : PassesFilter(m, m.allFiles[i])
    /\ \A i \in 1..Len(m.files) : PassesFilter(m, m.files[i])

\* The icon browser after a search in /h, which holds a bundle, an image
\* with an upper-case extension and a text file.
C15_Witness ==
  /\ m.currentStep = stepIconBrowser /\ m.currentDir = <<nH>>
  /\ m.searchMode /\ m.searchQuery = <<"b">>
  /\ m.files = <<FE(nB, <<nH, nB>>, FALSE)>>
  /\ Len(m.allFiles) = 4

\* The categories value the claim gives for a confirmed input.
NormalCategories(input) ==
  IF input = Empty THEN Utility
  ELSE IF input[Len(input)] = ";" THEN input
  ELSE input \o <<";">>

\* C16: confirming Categories stores the input unchanged when it ends with
\* ";", the input plus one ";" otherwise, and "Utility;" for an empty input;
\* so categories ends with ";" in Processing, Complete and Error.
C16_CategoriesNormalized ==
  /\ [](m.currentStep = stepCategories =>
          \A env \in InstallEnvs :
            LET r == UpdateKey(m, "enter", env).m
            IN /\ r.currentStep = stepProcessing
               /\ r.categories = NormalCategories(m.input))
  /\ [][m.currentStep = stepCategories /\ m'.currentStep # stepCategories =>
          m'.categories = NormalCategories(m.input)]_vars
  /\ [](m.currentStep \in {stepProcessing, stepComplete, stepError} =>
          m.categories # Empty /\ m.categories[Len(m.categories)] = ";")

\* The input "U;b" was confirmed and stored with one ";" added.
C16_Witness ==
  /\ m.currentStep = stepProcessing
  /\ m.categories = <<"U", ";", "b", ";">>

\* The place of a step in the forward order; Complete and Error share the
\* last place.
StepRank(st) ==
  CASE st = stepFileBrowser -> 0
    [] st = stepAppImageDir -> 1
    [] st = stepAppName     -> 2
    [] st = stepDescription -> 3
    [] st = stepIcon        -> 4
    [] st = stepIconBrowser -> 5
    [] st = stepCategories  -> 6
    [] st = stepProcessing  -> 7
    [] st \in Terminal      -> 8

\* C17: every event keeps the step or moves it to a later one in the order
\* FileBrowser, AppImageDir, AppName, Description, Icon, IconBrowser,
\* Categories, Processing, Complete/Error; Complete and Error are final.
C17_StepsOnlyForward ==
  /\ [][/\ StepRank(m'.currentStep) >= StepRank(m.currentStep)
         /\ m.currentStep \in Terminal => m'.currentStep = m.currentStep]_vars
  /\ [](\A key \in Keys : \A env \in EnvsFor(m, key) :
          LET r == UpdateKey(m, key, env).m
          IN /\ StepRank(r.currentStep) >= StepRank(m.currentStep)
             /\ m.currentStep \in Terminal => r.currentStep = m.currentStep)

\* A session that went through the directory step and the icon browser and
\* ended in Complete.
C17_Witness ==
  /\ m.currentStep = stepComplete
  /\ m.firstTimeSetup /\ m.appImageDir = DefaultDir
  /\ m.iconPath = <<nH, nB>>

\* C18 (as claimed): right after a step change the input is empty, or, on
\* entering AppImageDir or Categories, the default preloaded for that step;
\* also when the new step is Error.
C18_InputClearedOnStepChange ==
  [][m'.currentStep # m.currentStep =>
       \/ m'.input = Empty
       \/ m'.currentStep = stepAppImageDir /\ m'.input = DefaultDir
       \/ m'.currentStep = stepCategories /\ m'.input = Utility]_vars

\* C19 (as claimed): right after a step change to a step other than Error,
\* m.error is empty.
C19_ErrorClearedOnStepChange ==
  [][m'.currentStep # m.currentStep /\ m'.currentStep # stepError =>
       m'.error = NoError]_vars

\* os.Stat answers that the path does not exist.
IconMissingEnv == [DefaultEnv EXCEPT !.iconExists = FALSE]

\* C20: at the Icon step, Enter on a non-empty input that is not the browse
\* token and names no existing path keeps the step, leaves iconPath unset,
\* keeps the input and sets the error; Categories is entered from Icon with
\* an iconPath only when the path was found to exist.
C20_MissingIconRejected ==
  /\ [](m.currentStep = stepIcon /\ m.input \notin {Empty, <<"b">>, <<"B">>} =>
          LET r == UpdateKey(m, "enter", IconMissingEnv).m
          IN /\ r.currentStep = stepIcon
             /\ r.iconPath = Empty
             /\ r.input = m.input
             /\ r.error = ErrIcon)
  /\ [](m.currentStep = stepIcon =>
          \A env \in IconEnvs :
            LET r == UpdateKey(m, "enter", env).m
            IN r.currentStep = stepCategories /\ r.iconPath # Empty =>
                 env.iconExists /\ r.iconPath = m.input)
  /\ [](m.currentStep = stepIcon => m.iconPath = Empty)

\* The path ";" was confirmed and not found.
C20_Witness ==
  /\ m.currentStep = stepIcon /\ m.input = <<";">>
  /\ m.error = ErrIcon /\ m.iconPath = Empty

\* The steps that take text.
TextSteps ==
  {stepAppImageDir, stepAppName, stepDescription, stepIcon, stepCategories}

Called(op) == \E i \in DOMAIN pipeLog : pipeLog[i].op = op

\* C22: the pkexec copy is tried only after the unprivileged copy failed
\* and pkexec was found, and the outcome is success exactly when it
\* succeeds: after a failed pkexec copy no cache refresh is attempted and
\* the failure is reported; after a successful one success is reported,
\* whether update-desktop-database is missing, fails or succeeds.
C22_HelperCopyDecides ==
  /\ Called("pkexecCp") => Logged("cp", FALSE) /\ Logged("lookPkexec", TRUE)
  /\ Logged("pkexecCp", FALSE) =>
       /\ ~Called("lookUpdateDb") /\ ~Called("updateDb")
       /\ \A i \in DOMAIN msgs : msgs[i].err = ErrCopy
       /\ m.currentStep \in {stepProcessing, stepError}
       /\ delivered = 1 <=> m.currentStep = stepError
       /\ m.currentStep = stepError => m.error = ErrCopy
  /\ Logged("pkexecCp", TRUE) =>
       /\ Called("lookUpdateDb")
       /\ \A i \in DOMAIN msgs : msgs[i].err = NoError
       /\ m.currentStep \in {stepProcessing, stepComplete}
       /\ delivered = 1 <=> m.currentStep = stepComplete

\* The pkexec copy succeeded, the cache refresh failed, and the wizard is
\* in Complete.
C22_Witness ==
  /\ Logged("pkexecCp", TRUE) /\ Logged("updateDb", FALSE)
  /\ m.currentStep = stepComplete

\* C23 (as claimed): Enter in a browser step with an empty visible list
\* changes none of step, directory, listing, visible list, cursor, search
\* mode, query, bundle path and icon path, with search inactive or active.
C23_EnterOnEmptyIsNoOp ==
  isFileBrowserStep(m) /\ Len(m.files) = 0 =>
    \A env \in EnvsFor(m, "enter") :
      LET r == UpdateKey(m, "enter", env).m
      IN /\ r.currentStep = m.currentStep /\ r.currentDir = m.currentDir
         /\ r.allFiles = m.allFiles /\ r.files = m.files
         /\ r.cursor = m.cursor
         /\ r.searchMode = m.searchMode /\ r.searchQuery = m.searchQuery
         /\ r.appImagePath = m.appImagePath /\ r.iconPath = m.iconPath

\* The cursor of the browser stands on the entry "..".
OnParentEntry(mm) ==
  /\ isFileBrowserStep(mm) /\ ~mm.searchMode
  /\ mm.cursor < Len(mm.files)
  /\ mm.files[mm.cursor + 1].name = DotDot

\* C24: in a browser step with search inactive, outside the root, Enter on
\* ".." and Backspace give the same model: same step, the parent as
\* directory, and a fresh listing of it under the filter of the step; at
\* the root Backspace changes nothing.
C24_ParentEntryIsBackspace ==
  /\ OnParentEntry(m) =>
       \A env \in EnvsFor(m, "enter") :
         LET e == UpdateKey(m, "enter", env)
             b == UpdateKey(m, "backspace", DefaultEnv)
         IN /\ m.currentDir # Root
            /\ e = b
            /\ b.m.currentStep = m.currentStep
            /\ b.m.currentDir = Dir(m.currentDir)
            /\ FreshListing(b.m)
            /\ \A i \in 1..Len(b.m.allFiles) : PassesFilter(b.m, b.m.allFiles[i])
            /\ \A i \in 1..Len(b.m.allFiles) :
                 b.m.allFiles[i].name # DotDot =>
                   b.m.allFiles[i].path = Join(b.m.currentDir, b.m.allFiles[i].name)
  /\ isFileBrowserStep(m) /\ ~m.searchMode /\ m.currentDir = Root =>
       UpdateKey(m, "backspace", DefaultEnv) = Res(m, NoCmd, <<>>)

\* The icon browser in /h/p with the cursor on "..": both keys list /h
\* with the image filter.
C24_Witness ==
  /\ m.currentStep = stepIconBrowser /\ m.currentDir = <<nH, nP>>
  /\ OnParentEntry(m)
  /\ UpdateKey(m, "enter", DefaultEnv).m.currentDir = <<nH>>
  /\ UpdateKey(m, "backspace", DefaultEnv).m.allFiles[2].name = nB

\* The cursor kept if it is an index of the new visible list, the last
\* index of that list otherwise, 0 if the list is empty.
KeptOrClamped(old, new) ==
  IF old.cursor < Len(new.files) THEN old.cursor
  ELSE IF Len(new.files) = 0 THEN 0
  ELSE Len(new.files) - 1

\* The search edits a state allows: a character typed into the query, and
\* a backspace on a non-empty query.
SearchEdits(mm) ==
  IF isFileBrowserStep(mm) /\ mm.searchMode
  THEN {UpdateKey(mm, key, DefaultEnv).m : key \in CharKeys}
       \cup (IF mm.searchQuery # Empty
             THEN {UpdateKey(mm, "backspace", DefaultEnv).m}
             ELSE {})
  ELSE {}

\* C25 (as claimed): after every search edit the cursor is the previous
\* one if still valid and the last valid index otherwise, also after the
\* edit that empties the query.
C25_CursorKeptOrClamped ==
  \A r \in SearchEdits(m) :
    /\ r.searchQuery # m.searchQuery
    /\ r.cursor = KeptOrClamped(m, r)

\* C25 (amended): the same after every search edit that leaves the query
\* non-empty; the edit that empties the query puts the cursor to 0.
C25_CursorAfterSearchEdit ==
  \A r \in SearchEdits(m) :
    /\ r.searchQuery # m.searchQuery
    /\ r.cursor = IF r.searchQuery = Empty THEN 0 ELSE KeptOrClamped(m, r)

\* The cursor on the second of two matches; the backspace that empties the
\* query shows four entries and puts the cursor to 0.
C25_Witness ==
  /\ isFileBrowserStep(m) /\ m.searchMode /\ m.searchQuery = <<"p">>
  /\ m.cursor = 1 /\ Len(m.files) = 2
  /\ UpdateKey(m, "backspace", DefaultEnv).m.cursor = 0
  /\ Len(UpdateKey(m, "backspace", DefaultEnv).m.files) = 4

\* The place of a call in the pipeline.
OpRank(op) ==
  CASE op = "abs" -> 0 [] op = "move" -> 1 [] op = "chmod" -> 2
    [] op = "write" -> 3 [] op = "cp" -> 4 [] op = "lookPkexec" -> 5
    [] op = "pkexecCp" -> 6 [] op = "lookUpdateDb" -> 7 [] op = "updateDb" -> 8

\* The calls are in pipeline order, none made twice.
InPipelineOrder ==
  \A i, j \in DOMAIN pipeLog :
    i < j => OpRank(pipeLog[i].op) < OpRank(pipeLog[j].op)

\* The failure text reported for a failed call.
ErrOf(op) ==
  CASE op = "move" -> ErrMove [] op = "chmod" -> ErrChmod [] op = "write" -> ErrTmp

\* The failure is what the pipeline reports, now or once delivered.
Reported(err) ==
  /\ \A i \in DOMAIN cmds : cmds[i] = FailCmd(err)
  /\ \A i \in DOMAIN msgs : msgs[i].err = err
  /\ m.currentStep \in {stepProcessing, stepError}
  /\ delivered = 1 <=> m.currentStep = stepError
  /\ m.currentStep = stepError => m.error = err

\* C26 (as claimed): move, chmod, temp-file write and copy run in this
\* order and each is a hard-fail point: after a failed one, none of the
\* file operations of the pipeline is made any more, the copy is not tried
\* again, and the wizard does not complete.
C26_EveryStepHardFails ==
  /\ InPipelineOrder
  /\ \A i \in DOMAIN pipeLog :
       pipeLog[i].op \in {"move", "chmod", "write", "cp"} /\ ~pipeLog[i].ok =>
         /\ \A j \in DOMAIN pipeLog :
              j > i => pipeLog[j].op \notin {"chmod", "write", "cp", "pkexecCp"}
         /\ m.currentStep # stepComplete

\* C26 (amended): the calls run in pipeline order, none twice; a failed
\* move, chmod or temp-file write is the last call of the pipeline and its
\* failure is what is reported; the copy is tried only after the three
\* succeeded; a failed unprivileged copy is followed only by the lookup of
\* pkexec and, if that is found, by one copy through pkexec.
C26_PipelineHardFails ==
  /\ InPipelineOrder
  /\ \A i \in DOMAIN pipeLog :
       pipeLog[i].op \in {"move", "chmod", "write"} /\ ~pipeLog[i].ok =>
         /\ i = Len(pipeLog)
         /\ Reported(ErrOf(pipeLog[i].op))
  /\ Called("cp") =>
       /\ Called("move") => Logged("move", TRUE)
       /\ Logged("chmod", TRUE) /\ Logged("write", TRUE)
       /\ disk.bundleAtDest /\ disk.executable /\ disk.tmpFile
  /\ Called("write") => Logged("chmod", TRUE)
  /\ Called("chmod") /\ Called("move") => Logged("move", TRUE)
  /\ Called("lookPkexec") => Logged("cp", FALSE)
  /\ Called("pkexecCp") => Logged("lookPkexec", TRUE)

\* The move failed: nothing was made executable, written or copied, and
\* the wizard shows the failure of the move.
C26_Witness ==
  /\ Logged("move", FALSE) /\ Len(pipeLog) = 2
  /\ ~disk.bundleAtDest /\ ~disk.executable /\ ~disk.tmpFile /\ ~disk.desktopFile
  /\ m.currentStep = stepError /\ m.error = ErrMove

\* C27 (as claimed): the move, the chmod, the temp-file write and the
\* unprivileged copy are made by the background command, after the wizard
\* entered Processing; the Enter that confirms Categories makes no call of
\* the pipeline and leaves the file system as it is.
C27_PipelineRunsInBackground ==
  /\ [](\A i \in DOMAIN pipeLog :
          pipeLog[i].op \in {"move", "chmod", "write", "cp"} =>
            pipeLog[i].by = "task")
  /\ [][m.currentStep = stepCategories /\ m'.currentStep = stepProcessing =>
          pipeLog' = pipeLog /\ disk' = disk]_vars

\* C28 (as claimed): in Complete the model held by the event loop carries
\* the completion message, which names the application.
C28_CompleteCarriesMessage ==
  m.currentStep = stepComplete =>
    m.message # NoMessage /\ m.message = CompleteMessage(m.appName)

\* C29 (as claimed): in a text-entry step a named key other than enter,
\* backspace and the quit keys (an arrow key) leaves m.input and every
\* other field of the model unchanged.
C29_NamedKeysIgnored ==
  m.currentStep \in TextSteps =>
    \A key \in NamedKeys \ {"enter", "backspace", "ctrl+c", "esc"} :
      UpdateKey(m, key, DefaultEnv).m = m

====
